---- MODULE Spec2Model ----
(***************************************************************************)
(* Wallet ledger and PayFast reconciliation engine of the Cloud Functions  *)
(* backend (src/unnamed/part_002).  The durable state is the Firestore     *)
(* store: wallets/{uid}, wallets/{uid}/transactions/{id},                  *)
(* pending_payments/{paymentId}, groupWallets/{groupId} (+ transactions),  *)
(* rides/{rideId}, drivers_live/{driverId}, orders/{orderId}.              *)
(*                                                                         *)
(* Every db.runTransaction body reads through the transaction and is       *)
(* retried by Firestore on conflict, so its committed effect is one atomic *)
(* step.  Reads made with a plain ref.get() before a transaction are a     *)
(* separate, earlier step of the handler: the handler then holds a         *)
(* snapshot that can be stale when its transaction commits.                *)
(*                                                                         *)
(* Money is counted in whole currency units (integers).                    *)
(***************************************************************************)
EXTENDS Integers, Sequences, FiniteSets, TLC

VARIABLES
  env,          \* process.env of the deployment (secrets)
  wallets,      \* wallets/{uid}: [exists, balance]
  txs,          \* wallets/{uid}/transactions: doc id -> entry
  pending,      \* pending_payments: payment id -> record
  groupWallets, \* groupWallets/{groupId}: [exists, balance]
  groupTxs,     \* groupWallets/{groupId}/transactions: doc id -> entry
  rides,        \* rides/{rideId}
  driversLive,  \* drivers_live/{driverId}.occupied
  orders,       \* orders: doc id -> order
  pc,           \* per request handler: "idle" or "txn" (awaiting runTransaction)
  req,          \* per request handler: what the handler holds while in "txn"
  credited,     \* history: amount added to wallets by credit transactions, per payment id
  last          \* the call that made the latest step: its response and log line

vars == <<env, wallets, txs, pending, groupWallets, groupTxs, rides,
          driversLive, orders, pc, req, credited, last>>

store == <<wallets, txs, pending, groupWallets, groupTxs, rides, driversLive, orders>>

----------------------------------------------------------------------------
(* Bounds of the model *)

\* documents with an auto-generated id that the store may hold in total: the
\* pending payments, the ledger entries other than TOP_UP (which are keyed by
\* payment id) and the orders
MaxDocs == 3

(* Finite input domains *)
Uids == {"u1", "u2"}
NoAuth == ""                       \* request.auth.uid absent
Admins == {"u2"}                   \* users whose customClaims.admin === true
GroupIds == {"g1"}
RideIds == {"r1"}
BusinessIds == {"b1", "b2"}
FirstPaymentId == 101
\* ids db.collection('_ids').doc().id hands to createPayFastPayment
PaymentIds == FirstPaymentId..(FirstPaymentId + MaxDocs - 1)
Amounts == {1, 2}
Deltas == {-1, 1}
Handlers == {1, 2}                 \* concurrent request handler instances

GatewayPassphrase == "pw"          \* the passphrase the gateway signs with
GatewayPaymentMethod == "cc"

----------------------------------------------------------------------------
(* Helpers *)

cleanPf(v) == v   \* values of the model carry no surrounding blanks

\* Number(v) of an input that is not numeric; no amount of the model gets this high
NaN == 1000

\* a check that takes every input for a number
NeverNaN(v) == FALSE

isNaN(v) == v = NaN

\* !amount || isNaN(Number(amount)) || Number(amount) <= 0
InvalidAmount(v) == v = 0 \/ isNaN(v) \/ v <= 0

\* Firestore snapshot of a document that does not exist
NoWallet == [exists |-> FALSE, balance |-> 0]

\* Number(snap.get('balance') || 0) of an existing or missing wallet
BalanceOf(w) == IF w.exists THEN w.balance ELSE 0

\* t.set(ref, doc): create or overwrite the document with this id
SetDoc(coll, id, doc) ==
  [x \in (DOMAIN coll) \cup {id} |-> IF x = id THEN doc ELSE coll[x]]

\* documents of a collection whose id was auto-generated
AutoDocs(coll) == {x \in DOMAIN coll : x < FirstPaymentId}

\* db.collection(...).doc().id: an id no document of the collection has
NewId(coll) == Cardinality(AutoDocs(coll)) + 1

\* a ledger entry of a transactions collection
Entry(type, amount, counterparty, ref, fee) ==
  [type |-> type, amount |-> amount, counterparty |-> counterparty,
   ref |-> ref, platformFee |-> fee, status |-> "SUCCESS"]

RECURSIVE SumOver(_, _)
SumOver(f, S) ==
  IF S = {} THEN 0
  ELSE LET x == CHOOSE y \in S : TRUE IN f[x] + SumOver(f, S \ {x})

Docs ==
  Cardinality(DOMAIN pending)
  + SumOver([u \in Uids |-> Cardinality(AutoDocs(txs[u]))], Uids)
  + SumOver([g \in GroupIds |-> Cardinality(DOMAIN groupTxs[g])], GroupIds)
  + Cardinality(DOMAIN orders)

\* the collections can take k more auto-id documents
HasRoom(k) == Docs + k <= MaxDocs

EmptyColl == [x \in {} |-> 0]

\* the call that made the latest step: what it answered and the line it logged
\* the payload of a response that carries none
NoData == [paymentId |-> 0, credited |-> 0, currency |-> "", paymentMethod |-> "",
           balance |-> 0, items |-> 0]

RetData(op, result, log, data) ==
  [op |-> op, result |-> result, log |-> log, data |-> data]

Ret(op, result, log) == RetData(op, result, log, NoData)

\* no response is under way
NoCall == Ret("", "", "")

----------------------------------------------------------------------------------------------------------------------------------------
(* Faulty variants of single steps, against which the properties are tried *)

\* the redelivery check never recognises a completed payment
NeverProcessed(p) == FALSE

\* the signature comparison accepts every signature
SignatureAccepted(m) == FALSE

\* the TOP_UP entry gets an auto-generated document id
FreshTopUpDocId(r) == NewId(txs[r.uid])

\* the pending payment is left as it was
UntouchedPayment(doc, r) == doc

\* the sender keeps the amount
NotDebitedWallet(w, amount) == [exists |-> TRUE, balance |-> BalanceOf(w)]

\* the balance check lets every amount through
NeverInsufficient(w, amt) == FALSE

----------------
(* Signature codec as used by the webhook *)

\* crypto.createHash('md5').update(s).digest('hex'), collision-free
Md5(s) == <<"md5", s>>

NoSignature == <<>>

\* rawBodyString with its signature parameter removed: the other fields as sent
SigningString(m) ==
  <<m.m_payment_id, m.pf_payment_id, m.payment_status, m.amount_gross,
    m.custom_str1, m.payment_method>>

FinalString(m, passphrase) ==
  IF passphrase # "" THEN Append(SigningString(m), passphrase) ELSE SigningString(m)

calculatedSignature(m) == Md5(FinalString(m, cleanPf(env.PAYFAST_PASSPHRASE)))

----------------------------------------------------------------------------
(* Requests the gateway and its impersonators send to the webhook *)

\* the gateway's own id for a payment (pf_payment_id); 0 stands for null
PfPaymentId(p) == p + 1000

GatewayFields(p, u, a, s) ==
  [method |-> "POST", m_payment_id |-> p, pf_payment_id |-> PfPaymentId(p),
   payment_status |-> s, amount_gross |-> a, custom_str1 |-> u,
   payment_method |-> GatewayPaymentMethod, signature |-> NoSignature]

\* the gateway signs what it sends with the merchant's passphrase
GatewaySigned(m) ==
  [m EXCEPT !.signature = Md5(FinalString(m, GatewayPassphrase))]

\* ITNs of the gateway: it echoes the creation request (custom_str1 = uid,
\* amount) of a payment created here, with the status the payment reached
ItnGenuine ==
  {GatewaySigned(GatewayFields(p, pending[p].uid, pending[p].amount, s)) :
     p \in DOMAIN pending, s \in {"COMPLETE", "FAILED"}}

\* a genuine ITN replayed with amount_gross changed; the sender cannot
\* recompute the signature
ItnTampered ==
  {[m EXCEPT !.amount_gross = a] : m \in ItnGenuine, a \in Amounts} \ ItnGenuine

\* a request made up by someone who never saw an ITN
ItnForged ==
  {[GatewayFields(p, u, a, "COMPLETE") EXCEPT !.signature = Md5(<<"guess">>)] :
     p \in {FirstPaymentId}, u \in {"u1"}, a \in {2}}

\* a payment reference the gateway knows and pending_payments does not
UnknownPaymentId == FirstPaymentId + MaxDocs

\* a signed COMPLETE notification of the gateway for that reference
ItnUnknown == {GatewaySigned(GatewayFields(UnknownPaymentId, "u1", 1, "COMPLETE"))}

ItnRequests == ItnGenuine \cup ItnTampered \cup ItnForged \cup ItnUnknown

NoReq == [kind |-> "none", uid |-> "", paymentId |-> 0, amount |-> 0,
          pfPaymentId |-> 0, paymentMethod |-> ""]
----------------------------------------------------------------------------
(* PayFast 1) createPayFastPayment *)

\* a record that names no owner
UnownedPayment(uid, amount) ==
  [uid |-> "", amount |-> amount, currency |-> "ZAR", status |-> "PENDING",
   provider |-> "PAYFAST", pfPaymentId |-> 0, paymentMethod |-> ""]

\* a record that already carries a gateway payment id
PaymentWithGatewayId(uid, amount) ==
  [uid |-> uid, amount |-> amount, currency |-> "ZAR", status |-> "PENDING",
   provider |-> "PAYFAST", pfPaymentId |-> PfPaymentId(FirstPaymentId),
   paymentMethod |-> ""]

\* the document createPayFastPayment sets under pending_payments/{paymentId}
NewPayment(uid, amount) ==
  [uid |-> uid, amount |-> amount, currency |-> "ZAR", status |-> "PENDING",
   provider |-> "PAYFAST", pfPaymentId |-> 0, paymentMethod |-> ""]

createPayFastPayment(caller, amountStr) ==
  LET fail(r, log) == /\ last' = Ret("createPayFastPayment", r, log)
                      /\ UNCHANGED <<env, store, pc, req, credited>>
  IN
  /\ last = NoCall
  /\ IF caller = NoAuth THEN fail("unauthenticated", "Not signed in.")
     ELSE IF InvalidAmount(amountStr)
       THEN fail("invalid-argument", "amount must be a positive number")
     ELSE IF cleanPf(env.PAYFAST_MERCHANT_ID) = "" \/ cleanPf(env.PAYFAST_MERCHANT_KEY) = ""
       THEN fail("failed-precondition", "PayFast credentials not configured")
     ELSE
       \E paymentId \in PaymentIds \ DOMAIN pending :
         /\ HasRoom(1)
         /\ \A q \in PaymentIds \ DOMAIN pending : paymentId <= q
         /\ pending' = SetDoc(pending, paymentId, NewPayment(caller, amountStr))
         /\ last' = RetData("createPayFastPayment", "OK", "",
                            [NoData EXCEPT !.paymentId = paymentId])
         /\ UNCHANGED <<env, wallets, txs, groupWallets, groupTxs, rides,
                        driversLive, orders, pc, req, credited>>

----------------------------------------------------------------------------
(* PayFast ITN webhook handler: everything up to the runTransaction call *)

\* the handler instance reaches its db.runTransaction call holding r; the
\* instance is the first free one (instances are interchangeable)
StartTransaction(r) ==
  \E h \in Handlers :
    /\ pc[h] = "idle"
    /\ \A g \in Handlers : pc[g] = "idle" => h <= g
    /\ pc' = [pc EXCEPT ![h] = "txn"]
    /\ req' = [req EXCEPT ![h] = r]

ItnRespond(result, log) ==
  /\ last' = Ret("payfastITN", result, log)
  /\ UNCHANGED <<env, store, pc, req, credited>>

\* receivedSignature !== calculatedSignature
SignatureMismatch(m) == m.signature # calculatedSignature(m)

\* pending?.status === 'COMPLETED' on the snapshot read before the transaction
AlreadyProcessed(p) == pending[p].status = "COMPLETED"

payfastITN(m) ==
  /\ last = NoCall
  /\ IF m.method # "POST" THEN ItnRespond("405 Method not allowed", "Invalid method")
     ELSE IF cleanPf(env.PAYFAST_MERCHANT_KEY) = ""
       THEN ItnRespond("500 Configuration error", "Merchant key not configured")
     ELSE IF m.signature = NoSignature THEN ItnRespond("400 Missing signature", "Missing signature")
     ELSE IF SignatureMismatch(m) THEN ItnRespond("400 Invalid signature", "signature mismatch")
     ELSE IF m.payment_status # "COMPLETE" THEN ItnRespond("200 OK", "Payment not complete")
     ELSE IF m.m_payment_id = 0 \/ m.custom_str1 = "" \/ m.amount_gross = 0
       THEN ItnRespond("400 Missing required fields", "Missing required fields")
     ELSE IF m.m_payment_id \notin DOMAIN pending
       THEN ItnRespond("200 OK", "Payment ID not found in pending payments")
     ELSE IF AlreadyProcessed(m.m_payment_id)
       THEN ItnRespond("200 OK", "Payment already processed")
     ELSE
       /\ StartTransaction([kind |-> "itn", uid |-> m.custom_str1,
                            paymentId |-> m.m_payment_id, amount |-> m.amount_gross,
                            pfPaymentId |-> m.pf_payment_id,
                            paymentMethod |-> m.payment_method])
       /\ last' = Ret("payfastITN", "", "Starting transaction")
       /\ UNCHANGED <<env, store, credited>>

----------------------------------------------------------------------------
(* The credit transaction (db.runTransaction) of the webhook and of verify *)

TopUpEntry(r) ==
  Entry("TOP_UP", r.amount, "", r.paymentId, 0)

\* the fields t.update(pendingRef, ...) sets on each path
CompletedPayment(doc, r) ==
  IF r.kind = "itn"
  THEN [doc EXCEPT !.status = "COMPLETED", !.pfPaymentId = r.pfPaymentId,
                   !.paymentMethod = r.paymentMethod]
  ELSE [doc EXCEPT !.status = "COMPLETED"]

\* the wallet document a credit of `amount` leaves
CreditedWallet(w, amount) ==
  [exists |-> TRUE, balance |-> BalanceOf(w) + amount]

\* the document id of the TOP_UP entry: txCollection(uid).doc(paymentId)
TopUpDocId(r) == r.paymentId

CreditResponse(r) ==
  IF r.kind = "itn" THEN Ret("payfastITN", "200 OK", "Wallet credited successfully")
  ELSE RetData("verifyPayFastPayment", "SUCCESS", "",
               [NoData EXCEPT !.credited = r.amount, !.currency = "ZAR",
                               !.paymentMethod = r.paymentMethod])

\* the body of db.runTransaction commits: wallet, TOP_UP entry, pending payment
CreditTransaction(h) ==
  LET r == req[h] IN
  /\ last = NoCall
  /\ pc[h] = "txn"
  /\ wallets' = [wallets EXCEPT ![r.uid] = CreditedWallet(@, r.amount)]
  /\ txs' = [txs EXCEPT ![r.uid] = SetDoc(@, TopUpDocId(r), TopUpEntry(r))]
  /\ pending' = [pending EXCEPT ![r.paymentId] = CompletedPayment(@, r)]
  /\ credited' = [credited EXCEPT ![r.paymentId] =
                    @ + (wallets'[r.uid].balance - BalanceOf(wallets[r.uid]))]
  /\ pc' = [pc EXCEPT ![h] = "idle"]
  /\ req' = [req EXCEPT ![h] = NoReq]
  /\ last' = CreditResponse(r)
  /\ UNCHANGED <<env, groupWallets, groupTxs, rides, driversLive, orders>>

\* an outer catch that reports the failure to the sender
ErrorStatusResponse(r) ==
  IF r.kind = "itn" THEN Ret("payfastITN", "500 Internal error", "PayFast ITN error")
  ELSE Ret("verifyPayFastPayment", "internal", "PayFast verification failed")

FailureResponse(r) ==
  IF r.kind = "itn" THEN Ret("payfastITN", "200 OK", "PayFast ITN error")
  ELSE Ret("verifyPayFastPayment", "internal", "PayFast verification failed")

\* the transaction throws (store unavailable, contention): nothing is written;
\* the webhook's outer catch answers 200, verify rethrows as internal
CreditTransactionFails(h) ==
  /\ last = NoCall
  /\ pc[h] = "txn"
  /\ pc' = [pc EXCEPT ![h] = "idle"]
  /\ req' = [req EXCEPT ![h] = NoReq]
  /\ last' = FailureResponse(req[h])
  /\ UNCHANGED <<env, store, credited>>

----------------------------------------------------------------------------
(* PayFast 2) verifyPayFastPayment: everything up to the runTransaction call *)

\* a response that carries nothing of the stored payment
NoOutcome(doc) == NoData

\* {credited: pending.amount || 0, currency: pending.currency || base,
\*  paymentMethod: pending.paymentMethod || 'UNKNOWN'}
StoredOutcome(doc) ==
  [NoData EXCEPT
     !.credited = doc.amount,
     !.currency = IF doc.currency = "" THEN "ZAR" ELSE doc.currency,
     !.paymentMethod = IF doc.paymentMethod = "" THEN "UNKNOWN" ELSE doc.paymentMethod]

GatewayAnswers == {"COMPLETE", "PENDING", "ERROR"}

\* a lookup that takes the gateway payment id for known
GatewayIdAssumed(doc) == FALSE

\* !(pending?.pfPaymentId || pending?.payfastData?.pf_payment_id)
NoGatewayId(doc) == doc.pfPaymentId = 0

verifyPayFastPayment(caller, paymentId) ==
  LET done(r, log) == /\ last' = Ret("verifyPayFastPayment", r, log)
                      /\ UNCHANGED <<env, store, pc, req, credited>>
  IN
  /\ last = NoCall
  /\ IF caller = NoAuth THEN done("unauthenticated", "Not signed in.")
     ELSE IF paymentId = 0 THEN done("invalid-argument", "paymentId required")
     ELSE IF cleanPf(env.PAYFAST_MERCHANT_ID) = "" \/ cleanPf(env.PAYFAST_MERCHANT_KEY) = ""
       THEN done("failed-precondition", "PayFast credentials not configured")
     ELSE IF paymentId \notin DOMAIN pending THEN done("not-found", "Payment not found")
     ELSE IF pending[paymentId].status = "COMPLETED"
       THEN /\ last' = RetData("verifyPayFastPayment", "SUCCESS", "",
                               StoredOutcome(pending[paymentId]))
            /\ UNCHANGED <<env, store, pc, req, credited>>
     ELSE IF NoGatewayId(pending[paymentId])
       THEN done("PENDING", "No pf_payment_id yet, waiting for ITN")
     ELSE
       \* the gateway's answer to /eng/query/validate and /eng/query/get
       \E answer \in GatewayAnswers :
         IF answer = "ERROR" THEN done("internal", "PayFast verification failed")
         ELSE IF answer # "COMPLETE" THEN done("PENDING", "Payment not yet complete")
         ELSE
           /\ StartTransaction([kind |-> "verify", uid |-> caller,
                                paymentId |-> paymentId,
                                amount |-> pending[paymentId].amount,
                                pfPaymentId |-> pending[paymentId].pfPaymentId,
                                paymentMethod |-> GatewayPaymentMethod])
           /\ last' = Ret("verifyPayFastPayment", "", "querying PayFast")
           /\ UNCHANGED <<env, store, credited>>
----------------------------------------------------------------------------
(* 4) P2P transfer *)

DebitedWallet(w, amount) ==
  [exists |-> TRUE, balance |-> BalanceOf(w) - amount]

\* fromBal < amt throws failed-precondition inside the transaction
InsufficientBalance(w, amt) == BalanceOf(w) < amt

transferFunds(caller, toUid, amount) ==
  LET fail(r, log) == /\ last' = Ret("transferFunds", r, log)
                      /\ UNCHANGED <<env, store, pc, req, credited>>
  IN
  /\ last = NoCall
  /\ IF caller = NoAuth THEN fail("unauthenticated", "Not signed in.")
     ELSE IF toUid = "" THEN fail("invalid-argument", "toUid required")
     ELSE IF toUid = caller THEN fail("invalid-argument", "Cannot send to yourself")
     ELSE IF InvalidAmount(amount) THEN fail("invalid-argument", "amount must be > 0")
     ELSE IF InsufficientBalance(wallets[caller], amount)
       THEN fail("failed-precondition", "Insufficient balance")
     ELSE
       /\ HasRoom(2)
       /\ wallets' = [wallets EXCEPT ![caller] = DebitedWallet(@, amount),
                                     ![toUid] = CreditedWallet(@, amount)]
       /\ txs' = [txs EXCEPT
                    ![caller] = SetDoc(@, NewId(@), Entry("TRANSFER_OUT", amount, toUid, 0, 0)),
                    ![toUid] = SetDoc(@, NewId(@), Entry("TRANSFER_IN", amount, caller, 0, 0))]
       /\ last' = Ret("transferFunds", "SUCCESS", "")
       /\ UNCHANGED <<env, pending, groupWallets, groupTxs, rides, driversLive,
                      orders, pc, req, credited>>

----------------------------------------------------------------------------
(* 5) Transactions list and 6) wallet balance: reads only *)

\* the documents the query returns: at most the default limit of 20
getTransactions(caller) ==
  /\ last = NoCall
  /\ last' = IF caller = NoAuth
             THEN Ret("getTransactions", "unauthenticated", "Not signed in.")
             ELSE RetData("getTransactions", "OK", "",
                          [NoData EXCEPT !.items = Cardinality(DOMAIN txs[caller])])
  /\ UNCHANGED <<env, store, pc, req, credited>>

getWalletBalance(caller) ==
  /\ last = NoCall
  /\ last' = IF caller = NoAuth
             THEN Ret("getWalletBalance", "unauthenticated", "Not signed in.")
             ELSE RetData("getWalletBalance", "OK", "",
                          [NoData EXCEPT !.balance = BalanceOf(wallets[caller]),
                                         !.currency = "ZAR"])
  /\ UNCHANGED <<env, store, pc, req, credited>>

----------------------------------------------------------------------------
(* 7) Admin adjust *)

\* every caller passes for an admin
AnyoneAdmin(caller) == TRUE

\* !!(token.customClaims && token.customClaims.admin === true)
isAdmin(caller) == caller \in Admins

adminAdjustBalance(caller, uid, delta) ==
  LET fail(r, log) == /\ last' = Ret("adminAdjustBalance", r, log)
                      /\ UNCHANGED <<env, store, pc, req, credited>>
  IN
  /\ last = NoCall
  /\ IF caller = NoAuth THEN fail("unauthenticated", "Not signed in.")
     ELSE IF ~isAdmin(caller) THEN fail("permission-denied", "Admin only")
     ELSE IF uid = "" THEN fail("invalid-argument", "uid required")
     ELSE IF isNaN(delta) THEN fail("invalid-argument", "delta must be a number")
     ELSE
       /\ HasRoom(1)
       /\ wallets' = [wallets EXCEPT ![uid] = CreditedWallet(@, delta)]
       /\ txs' = [txs EXCEPT ![uid] = SetDoc(@, NewId(@), Entry("ADMIN_ADJUST", delta, "", 0, 0))]
       /\ last' = Ret("adminAdjustBalance", "SUCCESS", "")
       /\ UNCHANGED <<env, pending, groupWallets, groupTxs, rides, driversLive,
                      orders, pc, req, credited>>

----------------------------------------------------------------------------
(* 9) Complete ride and pay driver *)

DefaultFeeRatePct == 20
MaxFeeRatePct == 95

Min(a, b) == IF a < b THEN a ELSE b
Max(a, b) == IF a > b THEN a ELSE b

\* Math.max(0, Math.min(0.95, feeRateEnv)), in percent
feeRate == Max(0, Min(MaxFeeRatePct, env.APP_PLATFORM_FEE_RATE))

\* the fee cut off instead of rounded
TruncatedFee(amount) == (amount * feeRate) \div 100

\* Math.round(amount * feeRate): to the nearest integer, halves up
platformFee(amount) == (2 * amount * feeRate + 100) \div 200

\* a settlement that finds no ride settled
NeverSettled(ride) == FALSE

\* the ride document left as it was
UnmarkedRide(ride) == ride

\* t.update(rideRef, {status: "completed", payment: {status: "authorized"}})
SettledRide(ride) ==
  [ride EXCEPT !.status = "completed", !.paymentStatus = "authorized"]

\* ride?.payment?.status === "authorized" || ride?.status === "completed"
AlreadySettled(ride) ==
  ride.paymentStatus = "authorized" \/ ride.status = "completed"

payDriverOnComplete(caller, rideId) ==
  LET fail(r, log) == /\ last' = Ret("payDriverOnComplete", r, log)
                      /\ UNCHANGED <<env, store, pc, req, credited>>
  IN
  /\ last = NoCall
  /\ IF caller = NoAuth THEN fail("unauthenticated", "Not signed in.")
     ELSE IF rideId = "" THEN fail("invalid-argument", "rideId required")
     ELSE IF rideId \notin DOMAIN rides THEN fail("not-found", "Ride not found.")
     ELSE
       LET ride == rides[rideId]
           driverId == ride.driverId
           amount == ride.estimatedFareZAR
           fee == platformFee(amount)
           payout == amount - fee
       IN
       IF AlreadySettled(ride) THEN
         /\ driversLive' = IF driverId # "" THEN [driversLive EXCEPT ![driverId] = FALSE]
                           ELSE driversLive
         /\ last' = Ret("payDriverOnComplete", "ok", "already settled")
         /\ UNCHANGED <<env, wallets, txs, pending, groupWallets, groupTxs, rides,
                        orders, pc, req, credited>>
       ELSE IF ride.userId # caller THEN fail("permission-denied", "Not your ride.")
       ELSE IF ride.status # "on_trip"
         THEN fail("failed-precondition", "Ride must be on_trip to complete")
       ELSE IF driverId = "" THEN fail("failed-precondition", "No assigned driver.")
       ELSE IF amount <= 0 THEN fail("failed-precondition", "Invalid fare amount.")
       ELSE IF InsufficientBalance(wallets[caller], amount)
         THEN fail("failed-precondition", "Insufficient rider balance.")
       ELSE
         /\ HasRoom(2)
         /\ wallets' = [wallets EXCEPT ![caller] = DebitedWallet(@, amount),
                                       ![driverId] = CreditedWallet(@, payout)]
         /\ txs' = [txs EXCEPT
                      ![caller] = SetDoc(@, NewId(@), Entry("RIDE_PAYMENT", amount, driverId, rideId, fee)),
                      ![driverId] = SetDoc(@, NewId(@), Entry("RIDE_EARN", payout, caller, rideId, fee))]
         /\ rides' = [rides EXCEPT ![rideId] = SettledRide(@)]
         /\ driversLive' = [driversLive EXCEPT ![driverId] = FALSE]
         /\ last' = Ret("payDriverOnComplete", "ok", "")
         /\ UNCHANGED <<env, pending, groupWallets, groupTxs, orders, pc, req, credited>>

----------------------------------------------------------------------------
(* 10) Complete order and pay *)

\* businesses/{businessId}.ownerId; b2 has no owner set
businesses == [b \in BusinessIds |-> IF b = "b1" THEN "u2" ELSE ""]

\* the balance set to the increment instead of raised by it
OverwrittenWallet(w, d) ==
  [exists |-> TRUE, balance |-> d]

\* tx.set(ref, {balance: FieldValue.increment(d)}, {merge: true})
IncrementedWallet(w, d) ==
  [exists |-> TRUE, balance |-> BalanceOf(w) + d]

payAndPlaceOrder(caller, businessId, total) ==
  LET fail(r, log) == /\ last' = Ret("payAndPlaceOrder", r, log)
                      /\ UNCHANGED <<env, store, pc, req, credited>>
  IN
  /\ last = NoCall
  /\ IF caller = NoAuth THEN fail("unauthenticated", "Sign in required.")
     ELSE IF businessId = "" THEN fail("invalid-argument", "Missing order fields.")
     ELSE IF businessId \notin DOMAIN businesses THEN fail("not-found", "Business not found.")
     ELSE IF businesses[businessId] = "" THEN fail("failed-precondition", "Business owner not set.")
     ELSE IF isNaN(total) \/ total <= 0 THEN fail("invalid-argument", "Invalid total.")
     ELSE IF InsufficientBalance(wallets[caller], total)
       THEN fail("failed-precondition", "Insufficient funds.")
     ELSE
       LET ownerId == businesses[businessId]
           debited == [wallets EXCEPT ![caller] = IncrementedWallet(@, 0 - total)]
       IN
       /\ HasRoom(1)
       /\ wallets' = [debited EXCEPT ![ownerId] = IncrementedWallet(@, total)]
       /\ orders' = SetDoc(orders, NewId(orders),
                           [businessId |-> businessId, ownerId |-> ownerId,
                            userId |-> caller, total |-> total, status |-> "paid"])
       /\ last' = Ret("payAndPlaceOrder", "ok", "")
       /\ UNCHANGED <<env, txs, pending, groupWallets, groupTxs, rides, driversLive,
                      pc, req, credited>>

----------------------------------------------------------------------------
(* Group wallet deposit *)

depositToGroupWallet(caller, groupId, amount) ==
  LET fail(r, log) == /\ last' = Ret("depositToGroupWallet", r, log)
                      /\ UNCHANGED <<env, store, pc, req, credited>>
  IN
  /\ last = NoCall
  /\ IF caller = NoAuth THEN fail("unauthenticated", "Not signed in.")
     ELSE IF groupId = "" THEN fail("invalid-argument", "Missing groupId")
     ELSE IF InvalidAmount(amount) THEN fail("invalid-argument", "Invalid deposit amount")
     ELSE IF ~wallets[caller].exists THEN fail("failed-precondition", "User wallet not found")
     ELSE IF InsufficientBalance(wallets[caller], amount)
       THEN fail("failed-precondition", "Insufficient balance")
     ELSE
       /\ HasRoom(1)
       /\ wallets' = [wallets EXCEPT ![caller] = DebitedWallet(@, amount)]
       /\ groupWallets' = [groupWallets EXCEPT ![groupId] = CreditedWallet(@, amount)]
       /\ groupTxs' = [groupTxs EXCEPT ![groupId] =
                         SetDoc(@, NewId(@), Entry("DEPOSIT", amount, caller, 0, 0))]
       /\ last' = Ret("depositToGroupWallet", "ok", "")
       /\ UNCHANGED <<env, txs, pending, rides, driversLive, orders, pc, req, credited>>

----------------------------------------------------------------------------
(* The deployment and its request traffic *)

\* the deployments: the PayFast merchant secrets are set, or left empty
Environments ==
  {[PAYFAST_MERCHANT_ID |-> m[1], PAYFAST_MERCHANT_KEY |-> m[2],
    PAYFAST_PASSPHRASE |-> GatewayPassphrase,
    APP_PLATFORM_FEE_RATE |-> DefaultFeeRatePct] :
     m \in {<<"10044172", "ugnq5eaqpbc0r">>, <<"", "">>}}

\* a ride under way, written by the rider and driver apps
InitialRides ==
  [r \in RideIds |-> [userId |-> "u1", driverId |-> "u2", status |-> "on_trip",
                      estimatedFareZAR |-> 3, paymentStatus |-> ""]]

Init ==
  /\ env \in Environments
  /\ wallets = [u \in Uids |-> NoWallet]
  /\ txs = [u \in Uids |-> EmptyColl]
  /\ pending = EmptyColl
  /\ groupWallets = [g \in GroupIds |-> NoWallet]
  /\ groupTxs = [g \in GroupIds |-> EmptyColl]
  /\ rides = InitialRides
  /\ driversLive = [u \in Uids |-> u = "u2"]
  /\ orders = EmptyColl
  /\ pc = [h \in Handlers |-> "idle"]
  /\ req = [h \in Handlers |-> NoReq]
  /\ credited = [p \in PaymentIds |-> 0]
  /\ last = NoCall

\* the response in `last` reaches its caller.  Responses are delivered one at a
\* time: a request is taken up when the previous response has been delivered.
\* Delivering a response changes nothing in the store.
Reply ==
  /\ last # NoCall
  /\ last' = NoCall
  /\ UNCHANGED <<env, store, pc, req, credited>>

\* requests of signed-in clients with well-formed arguments, and the webhook's
Request ==
  \/ \E c \in Uids, a \in Amounts : createPayFastPayment(c, a)
  \/ \E m \in ItnRequests : payfastITN(m)
  \/ \E c \in Uids, p \in PaymentIds : verifyPayFastPayment(c, p)
  \/ \E h \in Handlers : CreditTransaction(h)
  \/ \E h \in Handlers : CreditTransactionFails(h)
  \/ \E c \in Uids, t \in Uids, a \in Amounts : transferFunds(c, t, a)
  \/ \E c \in Uids, u \in Uids, d \in Deltas : adminAdjustBalance(c, u, d)
  \/ \E c \in Uids, r \in RideIds : payDriverOnComplete(c, r)
  \/ \E c \in Uids, b \in BusinessIds, a \in Amounts : payAndPlaceOrder(c, b, a)
  \/ \E c \in Uids, g \in GroupIds, a \in Amounts : depositToGroupWallet(c, g, a)

Next ==
  \/ Request
  \/ Reply

Spec == Init /\ [][Next]_vars

----------------------------------------------------------------------------
(* Properties of the PayFast credit path *)

\* the TOP_UP entries of user u's log that refer to payment p
TopUpEntries(u, p) ==
  {d \in DOMAIN txs[u] : txs[u][d].type = "TOP_UP" /\ txs[u][d].ref = p}

\* m is a correctly signed POST with payment_status COMPLETE for a payment on file
SignedComplete(m) ==
  /\ m.method = "POST"
  /\ m.signature = calculatedSignature(m)
  /\ m.payment_status = "COMPLETE"
  /\ m.m_payment_id \in DOMAIN pending

MerchantKeyConfigured == env.PAYFAST_MERCHANT_KEY # ""

\* C1: however the webhook deliveries and verify calls for one COMPLETE payment
\* interleave, the owner's balance is increased by the payment amount at most
\* once: the total credited for a payment never exceeds its amount.
C1_CreditedAtMostOnce ==
  \A p \in DOMAIN pending : credited[p] <= pending[p].amount

\* C2: a correctly signed COMPLETE webhook delivered after the payment has been
\* completed (no credit transaction in flight) leaves every balance, every log
\* and the pending payment unchanged, starts no transaction, and is answered 200.
C2_RedeliveryIsNoOp ==
  [][last'.op = "payfastITN" =>
     \A m \in ItnRequests :
       (/\ payfastITN(m)
        /\ MerchantKeyConfigured
        /\ SignedComplete(m)
        /\ pending[m.m_payment_id].status = "COMPLETED"
        /\ \A h \in Handlers : pc[h] = "idle")
       => /\ UNCHANGED <<store, pc, req, credited>>
          /\ last'.result = "200 OK"]_vars

\* a redelivery for a completed payment has just been acknowledged, after the
\* first delivery credited the wallet
C2_Witness ==
  /\ last = Ret("payfastITN", "200 OK", "Payment already processed")
  /\ \E p \in DOMAIN pending : pending[p].status = "COMPLETED" /\ credited[p] > 0
  /\ \A h \in Handlers : pc[h] = "idle"

C4_MismatchRejected400 ==
  [][last'.op = "payfastITN" =>
     \A m \in ItnRequests :
       (/\ payfastITN(m)
        /\ m.method = "POST"
        /\ m.signature # NoSignature
        /\ m.signature # calculatedSignature(m))
       => /\ UNCHANGED <<store, pc, req, credited>>
          /\ last'.result = "400 Invalid signature"]_vars

\* C4, amended: a webhook whose signature does not match changes nothing and
\* starts no transaction; it is answered 400 where the merchant key is
\* configured and 500 where it is not.
C4_MismatchChangesNothing ==
  [][last'.op = "payfastITN" =>
     \A m \in ItnRequests :
       (/\ payfastITN(m)
        /\ m.method = "POST"
        /\ m.signature # NoSignature
        /\ m.signature # calculatedSignature(m))
       => /\ UNCHANGED <<store, pc, req, credited>>
          /\ last'.result = IF MerchantKeyConfigured THEN "400 Invalid signature"
                            ELSE "500 Configuration error"]_vars

\* a tampered webhook for a payment still PENDING has just been rejected
C4_Witness ==
  /\ last = Ret("payfastITN", "400 Invalid signature", "signature mismatch")
  /\ \E p \in DOMAIN pending : pending[p].status = "PENDING" /\ credited[p] = 0

----------------------------------------------------------------------------
(* Properties of the transfer *)

\* the documents a step added to a collection
Added(before, after) == DOMAIN after \ DOMAIN before

\* a step kept every document the collection had
Kept(before, after) ==
  \A d \in DOMAIN before : d \in DOMAIN after /\ after[d] = before[d]

\* C5: a transfer of amount > 0 between distinct users whose sender holds at
\* least the amount lowers the sender's balance by the amount, raises the
\* receiver's by the amount, and adds exactly one TRANSFER_OUT entry to the
\* sender's log and one TRANSFER_IN entry to the receiver's, each naming the
\* other side and the amount; nothing else in the store changes.
C5_TransferPostcondition ==
  [][last'.op = "transferFunds" =>
     \A c \in Uids, t \in Uids, a \in Amounts :
       (/\ transferFunds(c, t, a)
        /\ c # t /\ a > 0
        /\ BalanceOf(wallets[c]) >= a)
       => /\ last'.result = "SUCCESS"
          /\ BalanceOf(wallets'[c]) = BalanceOf(wallets[c]) - a
          /\ BalanceOf(wallets'[t]) = BalanceOf(wallets[t]) + a
          /\ \A u \in Uids \ {c, t} : wallets'[u] = wallets[u] /\ txs'[u] = txs[u]
          /\ Kept(txs[c], txs'[c]) /\ Kept(txs[t], txs'[t])
          /\ \E d \in Added(txs[c], txs'[c]) :
               /\ Added(txs[c], txs'[c]) = {d}
               /\ txs'[c][d].type = "TRANSFER_OUT"
               /\ txs'[c][d].counterparty = t
               /\ txs'[c][d].amount = a
          /\ \E d \in Added(txs[t], txs'[t]) :
               /\ Added(txs[t], txs'[t]) = {d}
               /\ txs'[t][d].type = "TRANSFER_IN"
               /\ txs'[t][d].counterparty = c
               /\ txs'[t][d].amount = a
          /\ UNCHANGED <<pending, groupWallets, groupTxs, rides, driversLive,
                         orders, credited>>]_vars

\* a transfer has just completed and left its two entries
C5_Witness ==
  /\ last = Ret("transferFunds", "SUCCESS", "")
  /\ \E c \in Uids : \E t \in Uids \ {c} :
       /\ \E d \in DOMAIN txs[c] : txs[c][d].type = "TRANSFER_OUT"
       /\ \E d \in DOMAIN txs[t] : txs[t][d].type = "TRANSFER_IN"

\* C6: a transfer whose amount exceeds the sender's balance fails with
\* failed-precondition and leaves every balance and every log as it was.
C6_InsufficientTransferRejected ==
  [][last'.op = "transferFunds" =>
     \A c \in Uids, t \in Uids, a \in Amounts :
       (/\ transferFunds(c, t, a)
        /\ c # t
        /\ a > BalanceOf(wallets[c]))
       => /\ last'.result = "failed-precondition"
          /\ UNCHANGED <<store, pc, req, credited>>]_vars

\* a transfer has just been refused for lack of funds, from a sender who
\* holds some money
C6_Witness ==
  /\ last = Ret("transferFunds", "failed-precondition", "Insufficient balance")
  /\ \E u \in Uids : BalanceOf(wallets[u]) = 1

----------------------------------------------------------------------------
(* Properties of the pending payment and of the ledger *)

\* C7: a pending payment only moves from PENDING to COMPLETED and stays
\* COMPLETED, and a wallet is credited for a payment only in the step that
\* moves the payment from PENDING to COMPLETED.
C7_CreditOnlyOnTransition ==
  [][\A p \in DOMAIN pending :
       /\ p \in DOMAIN pending'
       /\ pending[p].status = "COMPLETED" => pending'[p].status = "COMPLETED"
       /\ pending'[p].status \in {"PENDING", "COMPLETED"}
       /\ credited'[p] # credited[p] =>
            pending[p].status = "PENDING" /\ pending'[p].status = "COMPLETED"]_vars

\* C8: the credit is all-or-nothing.  While a payment is PENDING no wallet has
\* been credited for it and no TOP_UP entry refers to it; once it is COMPLETED
\* the owner has been credited its amount and the TOP_UP entry is on file.
C8_CreditAllOrNothing ==
  \A p \in DOMAIN pending :
    IF pending[p].status = "PENDING"
    THEN credited[p] = 0 /\ \A u \in Uids : TopUpEntries(u, p) = {}
    ELSE /\ pending[p].status = "COMPLETED"
         /\ credited[p] >= pending[p].amount
         /\ TopUpEntries(pending[p].uid, p) # {}

\* one payment credited and completed while another is still PENDING
C8_Witness ==
  \E p \in DOMAIN pending, q \in DOMAIN pending :
    /\ pending[p].status = "COMPLETED" /\ credited[p] = pending[p].amount
    /\ pending[q].status = "PENDING"

\* C9: every account balance is non-negative in every committed state.
C9_BalancesNonNegative ==
  /\ \A u \in Uids : BalanceOf(wallets[u]) >= 0
  /\ \A g \in GroupIds : BalanceOf(groupWallets[g]) >= 0

\* what an entry of a log adds to the balance of the account it belongs to
Signed(e) ==
  IF e.type \in {"TRANSFER_OUT", "RIDE_PAYMENT"} THEN 0 - e.amount ELSE e.amount

\* the signed sum of the entries of a log
LogSum(log) == SumOver([d \in DOMAIN log |-> Signed(log[d])], DOMAIN log)

\* C10: every change of a balance is committed together with a matching entry
\* in the same account's log, so each balance equals the signed sum of the
\* entries of its log.
C10_BalanceIsSumOfLog ==
  /\ \A u \in Uids : BalanceOf(wallets[u]) = LogSum(txs[u])
  /\ \A g \in GroupIds : BalanceOf(groupWallets[g]) = LogSum(groupTxs[g])

----------------------------------------------------------------------------
(* Ride settlement on its own: one ride under way, a funded rider *)

\* values of APP_PLATFORM_FEE_RATE, in percent, inside and outside [0, 95]
FeeRates == {-10, 0, 20, 50, 95, 150}

\* rides/{rideId}.estimatedFareZAR as the rider app wrote it
Fares == {0, 1, 2, 3}

\* what an admin adjustment funded the rider's wallet with
FundedBalances == {1, 2, 3}

InitRide ==
  /\ \E f \in FeeRates :
       env = [PAYFAST_MERCHANT_ID |-> "10044172",
              PAYFAST_MERCHANT_KEY |-> "ugnq5eaqpbc0r",
              PAYFAST_PASSPHRASE |-> GatewayPassphrase,
              APP_PLATFORM_FEE_RATE |-> f]
  /\ \E b \in FundedBalances :
       /\ wallets = [u \in Uids |-> IF u = "u1" THEN CreditedWallet(NoWallet, b)
                                    ELSE NoWallet]
       /\ txs = [u \in Uids |-> IF u = "u1"
                                THEN SetDoc(EmptyColl, 1, Entry("ADMIN_ADJUST", b, "", 0, 0))
                                ELSE EmptyColl]
  /\ \E fare \in Fares :
       rides = [r \in RideIds |-> [InitialRides[r] EXCEPT !.estimatedFareZAR = fare]]
  /\ pending = EmptyColl
  /\ groupWallets = [g \in GroupIds |-> NoWallet]
  /\ groupTxs = [g \in GroupIds |-> EmptyColl]
  /\ driversLive = [u \in Uids |-> u = "u2"]
  /\ orders = EmptyColl
  /\ pc = [h \in Handlers |-> "idle"]
  /\ req = [h \in Handlers |-> NoReq]
  /\ credited = [p \in PaymentIds |-> 0]
  /\ last = NoCall

NextRide ==
  \/ \E c \in Uids, r \in RideIds : payDriverOnComplete(c, r)
  \/ \E c \in Uids, t \in Uids, a \in Amounts : transferFunds(c, t, a)
  \/ Reply

SpecRide == InitRide /\ [][NextRide]_vars

\* the entries of a log with this type
EntriesOfType(log, type) == {d \in DOMAIN log : log[d].type = type}

\* APP_PLATFORM_FEE_RATE brought into [0, 95] percent
ClampedRate ==
  IF env.APP_PLATFORM_FEE_RATE < 0 THEN 0
  ELSE IF env.APP_PLATFORM_FEE_RATE > 95 THEN 95
  ELSE env.APP_PLATFORM_FEE_RATE

\* fee is amount * rate / 100 rounded to the nearest whole unit, halves up
IsRounded(fee, amount, rate) ==
  200 * fee - 100 <= 2 * amount * rate /\ 2 * amount * rate < 200 * fee + 100

C12_SettledOnce ==
  /\ [](\A u \in Uids : /\ Cardinality(EntriesOfType(txs[u], "RIDE_PAYMENT")) <= 1
                        /\ Cardinality(EntriesOfType(txs[u], "RIDE_EARN")) <= 1)
  /\ [][last'.op = "payDriverOnComplete" =>
        \A c \in Uids, r \in RideIds :
          (/\ payDriverOnComplete(c, r)
           /\ (rides[r].status = "completed" \/ rides[r].paymentStatus = "authorized"))
          => /\ last'.result = "ok"
             /\ UNCHANGED <<wallets, txs, groupWallets, groupTxs, pending, rides,
                            orders, credited>>]_vars

\* a second settlement call for a ride already paid has just answered ok
C12_Witness ==
  /\ last = Ret("payDriverOnComplete", "ok", "already settled")
  /\ \E u \in Uids : EntriesOfType(txs[u], "RIDE_PAYMENT") # {}

----------------------------------------------------------------------------
(* Properties of the webhook's responses *)

\* the responses the webhook may give: 200 OK, or 400/405 for a malformed request
WebhookResponses ==
  {"200 OK", "400 Missing signature", "400 Invalid signature",
   "400 Missing required fields", "405 Method not allowed"}

\* C13: the webhook answers every request with 200, or with 400 or 405 when
\* the request is malformed; it never answers with another status code.
C13_WebhookNever5xx ==
  (last.op = "payfastITN" /\ last.result # "") => last.result \in WebhookResponses

----------------------------------------------------------------------------
(* Properties of verifyPayFastPayment *)

MerchantConfigured ==
  env.PAYFAST_MERCHANT_ID # "" /\ env.PAYFAST_MERCHANT_KEY # ""

\* C14: verify on a COMPLETED payment answers SUCCESS with the stored amount,
\* currency and payment method; on a PENDING payment whose gateway payment id
\* is not known it answers PENDING; either way the store is left as it was.
C14_VerifyReadsOnly ==
  [][last'.op = "verifyPayFastPayment" =>
     \A c \in Uids, p \in DOMAIN pending :
       (verifyPayFastPayment(c, p) /\ MerchantConfigured)
       => /\ pending[p].status = "COMPLETED" =>
               /\ last'.result = "SUCCESS"
               /\ last'.data.credited = pending[p].amount
               /\ last'.data.currency = pending[p].currency
               /\ last'.data.paymentMethod = pending[p].paymentMethod
               /\ UNCHANGED <<store, pc, req, credited>>
          /\ (pending[p].status = "PENDING" /\ pending[p].pfPaymentId = 0) =>
               /\ last'.result = "PENDING"
               /\ UNCHANGED <<store, pc, req, credited>>]_vars

\* verify has just answered SUCCESS for a completed payment, with another
\* payment still waiting for its webhook
C14_Witness ==
  /\ last.op = "verifyPayFastPayment"
  /\ last.result = "SUCCESS"
  /\ last.data.paymentMethod = GatewayPaymentMethod
  /\ \E p \in DOMAIN pending : pending[p].status = "COMPLETED"
  /\ \E p \in DOMAIN pending : pending[p].status = "PENDING"

----------------------------------------------------------------------------
(* A deployment whose PAYFAST_PASSPHRASE is empty: the signature is the
   digest of the fields alone, which every sender can compute *)

\* a COMPLETE notification for a payment on file, naming any user and amount,
\* with the digest of its own fields as signature
ItnUnkeyed ==
  {[m EXCEPT !.signature = Md5(FinalString(m, ""))] :
     m \in {GatewayFields(p, u, a, "COMPLETE") :
              p \in DOMAIN pending, u \in Uids, a \in Amounts}}

InitNoPassphrase ==
  /\ env = [PAYFAST_MERCHANT_ID |-> "10044172",
            PAYFAST_MERCHANT_KEY |-> "ugnq5eaqpbc0r",
            PAYFAST_PASSPHRASE |-> "",
            APP_PLATFORM_FEE_RATE |-> DefaultFeeRatePct]
  /\ wallets = [u \in Uids |-> NoWallet]
  /\ txs = [u \in Uids |-> EmptyColl]
  /\ pending = EmptyColl
  /\ groupWallets = [g \in GroupIds |-> NoWallet]
  /\ groupTxs = [g \in GroupIds |-> EmptyColl]
  /\ rides = InitialRides
  /\ driversLive = [u \in Uids |-> u = "u2"]
  /\ orders = EmptyColl
  /\ pc = [h \in Handlers |-> "idle"]
  /\ req = [h \in Handlers |-> NoReq]
  /\ credited = [p \in PaymentIds |-> 0]
  /\ last = NoCall

NextNoPassphrase ==
  \/ createPayFastPayment("u1", 1)
  \/ \E m \in ItnUnkeyed : payfastITN(m)
  \/ \E h \in Handlers : CreditTransaction(h)
  \/ \E h \in Handlers : CreditTransactionFails(h)
  \/ Reply

SpecNoPassphrase == InitNoPassphrase /\ [][NextNoPassphrase]_vars

\* C16: a credit transaction of the webhook or of verify raises the balance of
\* the owner recorded in the pending payment by that payment's amount, and
\* raises no other balance.
C16_CreditGoesToOwner ==
  [][last'.op \in {"payfastITN", "verifyPayFastPayment"} =>
     \A h \in Handlers :
       CreditTransaction(h) =>
         \A u \in Uids :
           BalanceOf(wallets'[u]) - BalanceOf(wallets[u]) =
             IF u = pending[req[h].paymentId].uid
             THEN pending[req[h].paymentId].amount ELSE 0]_vars

----------------------------------------------------------------------------
(* Properties of createPayFastPayment and adminAdjustBalance *)

\* C17: with the merchant credentials configured, createPayment with a valid
\* amount answers with a payment id under which a new pending payment is on
\* file with status PENDING, the caller's uid and the amount; without the
\* credentials it fails with failed-precondition and writes nothing.
C17_CreateWritesPending ==
  [][last'.op = "createPayFastPayment" =>
     \A c \in Uids, a \in Amounts :
       createPayFastPayment(c, a) =>
         IF MerchantConfigured
         THEN /\ last'.result = "OK"
              /\ last'.data.paymentId \notin DOMAIN pending
              /\ DOMAIN pending' = DOMAIN pending \cup {last'.data.paymentId}
              /\ pending'[last'.data.paymentId].status = "PENDING"
              /\ pending'[last'.data.paymentId].uid = c
              /\ pending'[last'.data.paymentId].amount = a
              /\ Kept(pending, pending')
              /\ UNCHANGED <<wallets, txs, groupWallets, groupTxs, credited>>
         ELSE /\ last'.result = "failed-precondition"
              /\ UNCHANGED <<store, pc, req, credited>>]_vars

\* a payment has just been created next to an earlier one
C17_Witness ==
  /\ last.op = "createPayFastPayment"
  /\ last.result = "OK"
  /\ last.data.paymentId \in DOMAIN pending
  /\ pending[last.data.paymentId].status = "PENDING"
  /\ Cardinality(DOMAIN pending) = 2


\* C18: adminAdjust by a caller holding the admin claim adds its signed delta
\* to the target balance and writes one ADMIN_ADJUST entry in the target's log;
\* by a caller without the claim it fails with permission-denied and changes
\* no balance and no log.
C18_AdminOnly ==
  [][last'.op = "adminAdjustBalance" =>
     \A c \in Uids, u \in Uids, d \in Deltas :
       adminAdjustBalance(c, u, d) =>
         IF c \in Admins
         THEN /\ last'.result = "SUCCESS"
              /\ BalanceOf(wallets'[u]) = BalanceOf(wallets[u]) + d
              /\ \A v \in Uids \ {u} : wallets'[v] = wallets[v] /\ txs'[v] = txs[v]
              /\ Kept(txs[u], txs'[u])
              /\ \E e \in Added(txs[u], txs'[u]) :
                   /\ Added(txs[u], txs'[u]) = {e}
                   /\ txs'[u][e].type = "ADMIN_ADJUST"
                   /\ txs'[u][e].amount = d
              /\ UNCHANGED <<pending, groupWallets, groupTxs, rides, orders, credited>>
         ELSE /\ last'.result = "permission-denied"
              /\ UNCHANGED <<store, pc, req, credited>>]_vars

\* a caller without the admin claim has just been refused, after an admin
\* adjusted a balance
C18_Witness ==
  /\ last = Ret("adminAdjustBalance", "permission-denied", "Admin only")
  /\ \E u \in Uids : EntriesOfType(txs[u], "ADMIN_ADJUST") # {}

----------------------------------------------------------------------------
(* Client calls with and without a caller identity, with valid and invalid
   arguments, against a store in which u1 holds money *)

Callers == Uids \cup {NoAuth}

\* amounts a client may send: valid, zero, negative, not a number
SentAmounts == Amounts \cup {0, -1, NaN}

InitInputs ==
  /\ env \in Environments
  /\ wallets = [u \in Uids |-> IF u = "u1" THEN CreditedWallet(NoWallet, 2) ELSE NoWallet]
  /\ txs = [u \in Uids |-> IF u = "u1"
                           THEN SetDoc(EmptyColl, 1, Entry("ADMIN_ADJUST", 2, "", 0, 0))
                           ELSE EmptyColl]
  /\ pending = EmptyColl
  /\ groupWallets = [g \in GroupIds |-> NoWallet]
  /\ groupTxs = [g \in GroupIds |-> EmptyColl]
  /\ rides = InitialRides
  /\ driversLive = [u \in Uids |-> u = "u2"]
  /\ orders = EmptyColl
  /\ pc = [h \in Handlers |-> "idle"]
  /\ req = [h \in Handlers |-> NoReq]
  /\ credited = [p \in PaymentIds |-> 0]
  /\ last = NoCall

NextInputs ==
  \/ \E c \in Callers, a \in SentAmounts : createPayFastPayment(c, a)
  \/ \E c \in Callers, p \in PaymentIds \cup {0} : verifyPayFastPayment(c, p)
  \/ \E c \in Callers, t \in Uids \cup {""}, a \in SentAmounts : transferFunds(c, t, a)
  \/ \E c \in Callers : getTransactions(c)
  \/ \E c \in Callers : getWalletBalance(c)
  \/ \E c \in Callers, u \in Uids, d \in Deltas : adminAdjustBalance(c, u, d)
  \/ \E c \in Callers, r \in RideIds : payDriverOnComplete(c, r)
  \/ \E c \in Callers, g \in GroupIds, a \in SentAmounts : depositToGroupWallet(c, g, a)
  \/ Reply

SpecInputs == InitInputs /\ [][NextInputs]_vars

\* the step answered with this error and left the store and the handlers alone
Rejected(error) ==
  /\ last'.result = error
  /\ UNCHANGED <<store, pc, req, credited>>

\* C19: a transfer to oneself, a transfer or createPayment with an amount that
\* is not a positive number and a verify without a paymentId fail with
\* invalid-argument; every wallet call without a caller identity fails with
\* unauthenticated; none of them changes a balance, a log or a pending payment.
C19_InvalidCallsChangeNothing ==
  [][/\ \A c \in Callers, a \in SentAmounts :
          createPayFastPayment(c, a) =>
            /\ c = NoAuth => Rejected("unauthenticated")
            /\ (c # NoAuth /\ (a = NaN \/ a <= 0)) => Rejected("invalid-argument")
     /\ \A c \in Callers, p \in PaymentIds \cup {0} :
          verifyPayFastPayment(c, p) =>
            /\ c = NoAuth => Rejected("unauthenticated")
            /\ (c # NoAuth /\ p = 0) => Rejected("invalid-argument")
     /\ \A c \in Callers, t \in Uids \cup {""}, a \in SentAmounts :
          transferFunds(c, t, a) =>
            /\ c = NoAuth => Rejected("unauthenticated")
            /\ (c # NoAuth /\ (t = c \/ a = NaN \/ a <= 0)) => Rejected("invalid-argument")
     /\ getTransactions(NoAuth) => Rejected("unauthenticated")
     /\ getWalletBalance(NoAuth) => Rejected("unauthenticated")
     /\ \A u \in Uids, d \in Deltas :
          adminAdjustBalance(NoAuth, u, d) => Rejected("unauthenticated")
     /\ \A r \in RideIds :
          payDriverOnComplete(NoAuth, r) => Rejected("unauthenticated")
     /\ \A g \in GroupIds, a \in SentAmounts :
          depositToGroupWallet(NoAuth, g, a) => Rejected("unauthenticated")]_vars

\* a transfer of something that is not a number has just been refused, while
\* the sender holds money and a payment is on file
C19_Witness ==
  /\ last = Ret("transferFunds", "invalid-argument", "amount must be > 0")
  /\ BalanceOf(wallets["u1"]) > 0
  /\ pending # EmptyColl

----------------------------------------------------------------------------
(* The transactions of transferFunds and payAndPlaceOrder step by step.
   db.runTransaction runs its body against snapshots read with t.get and
   commits the writes only if no document the body read has changed since;
   otherwise it discards the attempt and runs the body again. *)

\* ledger and order documents the store may hold in this specification
MaxTxnDocs == 5

TxnRoom(k) == Docs + k <= MaxTxnDocs

\* what a handler holds inside runTransaction: its arguments and its snapshots
TxnReq(kind, uid, to, amount, fromSnap, toSnap) ==
  [kind |-> kind, uid |-> uid, to |-> to, amount |-> amount,
   fromSnap |-> fromSnap, toSnap |-> toSnap]

\* the handler passed its argument checks and calls db.runTransaction
TransferBegin(h, caller, toUid, amount) ==
  /\ last = NoCall
  /\ pc[h] = "idle"
  /\ IF toUid = caller \/ InvalidAmount(amount)
     THEN /\ last' = Ret("transferFunds", "invalid-argument", "")
          /\ UNCHANGED <<pc, req>>
     ELSE /\ pc' = [pc EXCEPT ![h] = "begin"]
          /\ req' = [req EXCEPT ![h] = TxnReq("transfer", caller, toUid, amount,
                                              NoWallet, NoWallet)]
          /\ last' = Ret("transferFunds", "", "runTransaction")
  /\ UNCHANGED <<env, store, credited>>

\* the body reads both wallets and checks the sender's balance
TransferRead(h) ==
  LET r == req[h] IN
  /\ last = NoCall
  /\ pc[h] = "begin" /\ r.kind = "transfer"
  /\ IF InsufficientBalance(wallets[r.uid], r.amount)
     THEN /\ pc' = [pc EXCEPT ![h] = "idle"]
          /\ req' = [req EXCEPT ![h] = NoReq]
          /\ last' = Ret("transferFunds", "failed-precondition", "Insufficient balance")
     ELSE /\ pc' = [pc EXCEPT ![h] = "read"]
          /\ req' = [req EXCEPT ![h] = [r EXCEPT !.fromSnap = wallets[r.uid],
                                                 !.toSnap = wallets[r.to]]]
          /\ last' = Ret("transferFunds", "", "read")
  /\ UNCHANGED <<env, store, credited>>

\* a commit that never looks at what happened since the reads
AlwaysFresh(h) == TRUE

\* no document the body read has changed since it was read
ReadSetFresh(h) ==
  /\ wallets[req[h].uid] = req[h].fromSnap
  /\ req[h].kind = "transfer" => wallets[req[h].to] = req[h].toSnap

\* the commit: the writes the body computed from its snapshots, or a new run
TransferCommit(h) ==
  LET r == req[h]
      fromBal == BalanceOf(r.fromSnap)
      toBal == BalanceOf(r.toSnap)
  IN
  /\ last = NoCall
  /\ pc[h] = "read" /\ r.kind = "transfer"
  /\ IF ReadSetFresh(h)
     THEN /\ TxnRoom(2)
          /\ wallets' = [wallets EXCEPT
                           ![r.uid] = [exists |-> TRUE, balance |-> fromBal - r.amount],
                           ![r.to] = [exists |-> TRUE, balance |-> toBal + r.amount]]
          /\ txs' = [txs EXCEPT
                       ![r.uid] = SetDoc(@, NewId(@), Entry("TRANSFER_OUT", r.amount, r.to, 0, 0)),
                       ![r.to] = SetDoc(@, NewId(@), Entry("TRANSFER_IN", r.amount, r.uid, 0, 0))]
          /\ pc' = [pc EXCEPT ![h] = "idle"]
          /\ req' = [req EXCEPT ![h] = NoReq]
          /\ last' = Ret("transferFunds", "SUCCESS", "")
     ELSE /\ pc' = [pc EXCEPT ![h] = "begin"]
          /\ last' = Ret("transferFunds", "", "retry")
          /\ UNCHANGED <<wallets, txs, req>>
  /\ UNCHANGED <<env, pending, groupWallets, groupTxs, rides, driversLive,
                 orders, credited>>

OrderBegin(h, caller, businessId, total) ==
  /\ last = NoCall
  /\ pc[h] = "idle"
  /\ businessId \in DOMAIN businesses
  /\ pc' = [pc EXCEPT ![h] = "begin"]
  /\ req' = [req EXCEPT ![h] = TxnReq("order", caller, businessId, total,
                                      NoWallet, NoWallet)]
  /\ last' = Ret("payAndPlaceOrder", "", "runTransaction")
  /\ UNCHANGED <<env, store, credited>>

\* the body reads the business and the buyer's wallet and checks the total
OrderRead(h) ==
  LET r == req[h]
      stop(e, log) == /\ pc' = [pc EXCEPT ![h] = "idle"]
                      /\ req' = [req EXCEPT ![h] = NoReq]
                      /\ last' = Ret("payAndPlaceOrder", e, log)
  IN
  /\ last = NoCall
  /\ pc[h] = "begin" /\ r.kind = "order"
  /\ IF businesses[r.to] = "" THEN stop("failed-precondition", "Business owner not set.")
     ELSE IF isNaN(r.amount) \/ r.amount <= 0 THEN stop("invalid-argument", "Invalid total.")
     ELSE IF InsufficientBalance(wallets[r.uid], r.amount)
       THEN stop("failed-precondition", "Insufficient funds.")
     ELSE /\ pc' = [pc EXCEPT ![h] = "read"]
          /\ req' = [req EXCEPT ![h] = [r EXCEPT !.fromSnap = wallets[r.uid]]]
          /\ last' = Ret("payAndPlaceOrder", "", "read")
  /\ UNCHANGED <<env, store, credited>>

\* the commit: FieldValue.increment applies to the balances as they are
OrderCommit(h) ==
  LET r == req[h]
      ownerId == businesses[r.to]
      debited == [wallets EXCEPT ![r.uid] = IncrementedWallet(@, 0 - r.amount)]
  IN
  /\ last = NoCall
  /\ pc[h] = "read" /\ r.kind = "order"
  /\ IF ReadSetFresh(h)
     THEN /\ TxnRoom(1)
          /\ wallets' = [debited EXCEPT ![ownerId] = IncrementedWallet(@, r.amount)]
          /\ orders' = SetDoc(orders, NewId(orders),
                              [businessId |-> r.to, ownerId |-> ownerId,
                               userId |-> r.uid, total |-> r.amount, status |-> "paid"])
          /\ pc' = [pc EXCEPT ![h] = "idle"]
          /\ req' = [req EXCEPT ![h] = NoReq]
          /\ last' = Ret("payAndPlaceOrder", "ok", "")
     ELSE /\ pc' = [pc EXCEPT ![h] = "begin"]
          /\ last' = Ret("payAndPlaceOrder", "", "retry")
          /\ UNCHANGED <<wallets, orders, req>>
  /\ UNCHANGED <<env, txs, pending, groupWallets, groupTxs, rides, driversLive,
                 credited>>

\* both users hold money that admin adjustments put there
InitTxn ==
  /\ env \in {e \in Environments : e.PAYFAST_MERCHANT_ID # ""}
  /\ wallets = [u \in Uids |-> CreditedWallet(NoWallet, IF u = "u1" THEN 2 ELSE 1)]
  /\ txs = [u \in Uids |->
              SetDoc(EmptyColl, 1, Entry("ADMIN_ADJUST", IF u = "u1" THEN 2 ELSE 1, "", 0, 0))]
  /\ pending = EmptyColl
  /\ groupWallets = [g \in GroupIds |-> NoWallet]
  /\ groupTxs = [g \in GroupIds |-> EmptyColl]
  /\ rides = InitialRides
  /\ driversLive = [u \in Uids |-> u = "u2"]
  /\ orders = EmptyColl
  /\ pc = [h \in Handlers |-> "idle"]
  /\ req = [h \in Handlers |-> NoReq]
  /\ credited = [p \in PaymentIds |-> 0]
  /\ last = NoCall

NextTxn ==
  \/ \E h \in Handlers, c \in Uids, t \in Uids, a \in Amounts : TransferBegin(h, c, t, a)
  \/ \E h \in Handlers : TransferRead(h)
  \/ \E h \in Handlers : TransferCommit(h)
  \/ \E h \in Handlers, c \in Uids, b \in BusinessIds, a \in Amounts : OrderBegin(h, c, b, a)
  \/ \E h \in Handlers : OrderRead(h)
  \/ \E h \in Handlers : OrderCommit(h)
  \/ Reply

SpecTxn == InitTxn /\ [][NextTxn]_vars

\* what the orders on file took from or brought to user u
OrderSum(u) ==
  SumOver([d \in DOMAIN orders |->
             (IF orders[d].ownerId = u THEN orders[d].total ELSE 0)
             - (IF orders[d].userId = u THEN orders[d].total ELSE 0)],
          DOMAIN orders)

----------------------------------------------------------------------------
(* Ride and order settlement side by side: one ride under way, a funded
   rider who also buys from the businesses *)

NextSettle ==
  \/ \E c \in Uids, r \in RideIds : payDriverOnComplete(c, r)
  \/ \E c \in Uids, b \in BusinessIds, a \in Amounts : payAndPlaceOrder(c, b, a)
  \/ Reply

SpecSettle == InitRide /\ [][NextSettle]_vars

\* the entries of a log with this type that refer to ride r
RideEntries(log, type, r) ==
  {d \in DOMAIN log : log[d].type = type /\ log[d].ref = r}

\* the ride is marked completed, or its payment authorized
MarkedPaid(ride) == ride.status = "completed" \/ ride.paymentStatus = "authorized"

----------------------------------------------------------------------------
(* Frame of the webhook *)

\* C22: the webhook changes the store only in the credit of a payment on file
\* that is PENDING, which a correctly signed COMPLETE notification started; a
\* correctly signed notification with another payment_status, or for a
\* reference with no pending payment, is answered 200 and changes no balance,
\* no log and no pending payment, and creates no record.
C22_WebhookFrame ==
  [][last'.op = "payfastITN" =>
     /\ store' # store =>
          \E h \in Handlers :
            /\ CreditTransaction(h)
            /\ req[h].kind = "itn"
            /\ req[h].paymentId \in DOMAIN pending
            /\ pending[req[h].paymentId].status = "PENDING"
     /\ \A m \in ItnRequests :
          (/\ payfastITN(m)
           /\ m.method = "POST"
           /\ m.signature = Md5(FinalString(m, GatewayPassphrase))
           /\ (m.payment_status # "COMPLETE" \/ m.m_payment_id \notin DOMAIN pending))
          => /\ last'.result = "200 OK"
             /\ DOMAIN pending' = DOMAIN pending
             /\ UNCHANGED <<store, pc, req, credited>>]_vars

----------------------------------------------------------------------------
(* Failure of the webhook's credit transaction *)

\* handler h holds the only credit transaction in flight for its payment
OnlyCreditInFlight(h) ==
  \A g \in Handlers \ {h} : pc[g] = "txn" => req[g].paymentId # req[h].paymentId

\* C23: when the credit transaction of a webhook delivery fails, the handler
\* still answers 200, the payment stays PENDING and no balance and no log
\* changes; a redelivery that finds the payment PENDING is taken up again, and
\* its credit transaction raises the owner's balance by the amount once and
\* completes the payment.
C23_FailedCreditLeavesPending ==
  [][last'.op = "payfastITN" =>
     /\ \A h \in Handlers :
          (CreditTransactionFails(h) /\ req[h].kind = "itn")
          => /\ last'.result = "200 OK"
             /\ pending'[req[h].paymentId] = pending[req[h].paymentId]
             /\ UNCHANGED <<store, credited>>
     /\ \A m \in ItnGenuine :
          (/\ payfastITN(m)
           /\ MerchantKeyConfigured
           /\ m.payment_status = "COMPLETE"
           /\ pending[m.m_payment_id].status = "PENDING"
           /\ \E h \in Handlers : pc[h] = "idle")
          => \E h \in Handlers :
               /\ pc[h] = "idle" /\ pc'[h] = "txn"
               /\ req'[h].paymentId = m.m_payment_id
               /\ req'[h].amount = pending[m.m_payment_id].amount
     /\ \A h \in Handlers :
          LET p == req[h].paymentId IN
          (/\ CreditTransaction(h)
           /\ req[h].kind = "itn"
           /\ pending[p].status = "PENDING"
           /\ OnlyCreditInFlight(h))
          => /\ credited[p] = 0
             /\ credited'[p] = pending[p].amount
             /\ pending'[p].status = "COMPLETED"
             /\ BalanceOf(wallets'[pending[p].uid]) =
                  BalanceOf(wallets[pending[p].uid]) + pending[p].amount
             /\ Cardinality(TopUpEntries(pending[p].uid, p)) = 0
             /\ Cardinality({d \in DOMAIN txs'[pending[p].uid] :
                               txs'[pending[p].uid][d].type = "TOP_UP"
                               /\ txs'[pending[p].uid][d].ref = p}) = 1]_vars

\* a failed credit transaction has just been acknowledged: the payment is
\* still PENDING, nothing was credited, and no other delivery is in flight
C23_Witness ==
  /\ last = Ret("payfastITN", "200 OK", "PayFast ITN error")
  /\ \E p \in DOMAIN pending :
       /\ pending[p].status = "PENDING"
       /\ credited[p] = 0
       /\ TopUpEntries(pending[p].uid, p) = {}
  /\ \A h \in Handlers : pc[h] = "idle"

----------------------------------------------------------------------------
(* Ledger records are written once *)

\* C24: an entry of a log, once written, keeps every field in every later
\* state and is never removed or overwritten, whichever operation runs and
\* however credit attempts for one payment repeat or overlap; pending payments
\* and balance records are never deleted.
C24_WriteOnce ==
  [][/\ \A u \in Uids : Kept(txs[u], txs'[u])
     /\ \A g \in GroupIds : Kept(groupTxs[g], groupTxs'[g])
     /\ DOMAIN pending \subseteq DOMAIN pending'
     /\ \A u \in Uids : wallets[u].exists => wallets'[u].exists
     /\ \A g \in GroupIds : groupWallets[g].exists => groupWallets'[g].exists]_vars

----------------------------------------------------------------------------
(* The signature codec of the creation and query requests
   (generatePayFastSignature): a pure function of a field map, a passphrase
   and its options.  A field map is the sequence of its <<key, value>> pairs
   in insertion order, which is the order Object.entries walks them in. *)

\* fields a request may carry
MaxFields == 3

PfKeys == {"amount", "email_address", "item_name", "signature"}

\* position of a key in the order Array.prototype.sort puts the keys in
KeyRank(k) ==
  CASE k = "amount" -> 1
    [] k = "email_address" -> 2
    [] k = "item_name" -> 3
    [] k = "signature" -> 4

\* a field set to null
Null == "(null)"

\* field values: empty, blank, plain, with a space, null
PfValues == {"", " ", "10", "a b", Null}

\* String(v).trim() of a field value
trimPf(v) == IF v = " " THEN "" ELSE v

\* encodeURIComponent(v).replace(/%20/g, '+')
encodePf(v) == IF v = "a b" THEN "a+b" ELSE v

Range(s) == {s[i] : i \in DOMAIN s}

\* the pairs of a field map that pass the filter, in insertion order, cleaned
RECURSIVE filtered(_, _)
filtered(data, opts) ==
  IF data = <<>> THEN <<>>
  ELSE LET key == Head(data)[1]
           value == Head(data)[2]
           rest == filtered(Tail(data), opts)
       IN
       IF key \in opts.excludeKeys THEN rest
       ELSE IF value = Null THEN rest
       ELSE IF ~opts.includeEmpty /\ trimPf(value) = "" THEN rest
       ELSE <<(<<key, trimPf(value)>>)>> \o rest

\* the keys in the order they were inserted
insertionKeys(pairs) == [i \in DOMAIN pairs |-> pairs[i][1]]

\* Object.keys(filtered).sort()
RECURSIVE sortedKeys(_)
sortedKeys(pairs) ==
  IF pairs = <<>> THEN <<>>
  ELSE LET least == CHOOSE p \in Range(pairs) :
                      \A q \in Range(pairs) : KeyRank(p[1]) <= KeyRank(q[1])
           others == SelectSeq(pairs, LAMBDA q : q # least)
       IN <<least[1]>> \o sortedKeys(others)

\* the value stored under a key
ValueOf(pairs, key) == (CHOOSE p \in Range(pairs) : p[1] = key)[2]

\* sortedKeys.map(key => `${key}=${encodePf(filtered[key])}`).join('&')
buildPayFastQueryString(data, opts) ==
  LET kept == filtered(data, opts)
      keys == sortedKeys(kept)
  IN [i \in DOMAIN keys |-> <<keys[i], encodePf(ValueOf(kept, keys[i]))>>]

generatePayFastSignature(data, passphrase, opts) ==
  LET queryString == buildPayFastQueryString(data, opts)
      pf == cleanPf(passphrase)
  IN IF pf # "" THEN Md5(<<queryString, "passphrase", pf>>) ELSE Md5(queryString)

\* field maps: up to MaxFields pairs with distinct keys, in any insertion order
FieldMaps ==
  UNION {{s \in [1..n -> PfKeys \X PfValues] :
            \A i, j \in 1..n : i # j => s[i][1] # s[j][1]} : n \in 0..MaxFields}

SignOptions ==
  [includeEmpty : BOOLEAN, excludeKeys : {{"signature"}}]

\* the arguments of one call
SignArgs(data, passphrase, opts) ==
  [data |-> data, passphrase |-> passphrase, opts |-> opts]

NoArgs == SignArgs(<<>>, "", [includeEmpty |-> FALSE, excludeKeys |-> {}])

SignResponse(a) ==
  Ret("generatePayFastSignature",
      generatePayFastSignature(a.data, a.passphrase, a.opts), "")

\* the field map with two of its pairs inserted the other way round; every
\* insertion order is some number of such exchanges away
InsertionOrders(data) ==
  {[data EXCEPT ![i] = data[j], ![j] = data[i]] :
     i \in DOMAIN data, j \in DOMAIN data}

\* req[1]: the arguments of the call before, req[2]: of the latest call
InitSign ==
  /\ \E data \in FieldMaps, passphrase \in {"", GatewayPassphrase}, opts \in SignOptions :
       req = <<NoArgs, SignArgs(data, passphrase, opts)>>
  /\ last = NoCall
  /\ env \in {e \in Environments : e.PAYFAST_MERCHANT_ID # ""}
  /\ wallets = [u \in Uids |-> NoWallet]
  /\ txs = [u \in Uids |-> EmptyColl]
  /\ pending = EmptyColl
  /\ groupWallets = [g \in GroupIds |-> NoWallet]
  /\ groupTxs = [g \in GroupIds |-> EmptyColl]
  /\ rides = InitialRides
  /\ driversLive = [u \in Uids |-> u = "u2"]
  /\ orders = EmptyColl
  /\ pc = [h \in Handlers |-> "idle"]
  /\ credited = [p \in PaymentIds |-> 0]

\* the first call signs the field map as given
SignFirst ==
  /\ last = NoCall
  /\ last' = SignResponse(req[2])
  /\ UNCHANGED <<env, store, pc, req, credited>>

\* the next call signs the same pairs, two of them inserted the other way round
SignReordered ==
  /\ last # NoCall
  /\ \E data \in InsertionOrders(req[2].data) :
       /\ req' = <<req[2], [req[2] EXCEPT !.data = data]>>
       /\ last' = SignResponse(req'[2])
  /\ UNCHANGED <<env, store, pc, credited>>

\* the next call signs the field map with one more key, set to an empty value
SignWithEmptyField ==
  /\ last # NoCall
  /\ Len(req[2].data) < MaxFields
  /\ \E key \in PfKeys \ Range(insertionKeys(req[2].data)), value \in {"", " "} :
       /\ req' = <<req[2], [req[2] EXCEPT !.data = Append(@, <<key, value>>)]>>
       /\ last' = SignResponse(req'[2])
  /\ UNCHANGED <<env, store, pc, credited>>

NextSign ==
  \/ SignFirst
  \/ SignReordered
  \/ SignWithEmptyField

SpecSign == InitSign /\ [][NextSign]_vars

\* C25: the signature depends on the set of fields, not on the order they
\* were inserted in.  The string that is signed holds no excluded key, holds no
\* empty value unless includeEmpty is set, and has its keys in sorted order;
\* two calls on the same pairs in any two orders give the same signature; a
\* further key with an empty value leaves the signature as it was when
\* includeEmpty is false, and is part of the signed string, changing the
\* signature, when includeEmpty is true.
C25_SignatureOrderFree ==
  /\ [](last.op = "generatePayFastSignature" =>
          LET a == req[2]
              q == buildPayFastQueryString(a.data, a.opts)
          IN
          /\ last.result = generatePayFastSignature(a.data, a.passphrase, a.opts)
          /\ \A i \in DOMAIN q :
               /\ q[i][1] \notin a.opts.excludeKeys
               /\ a.opts.includeEmpty \/ q[i][2] # ""
               /\ \A j \in DOMAIN q : i < j => KeyRank(q[i][1]) < KeyRank(q[j][1]))
  /\ [][(last.op = "generatePayFastSignature" /\ req' # req) =>
          LET a == req'[1]
              b == req'[2]
              added == Range(b.data) \ Range(a.data)
          IN
          /\ a = req[2]
          /\ Range(b.data) = Range(a.data) => last'.result = last.result
          /\ \A f \in added :
               (Range(b.data) = Range(a.data) \cup {f} /\ trimPf(f[2]) = "")
               => IF ~a.opts.includeEmpty \/ f[1] \in a.opts.excludeKeys
                  THEN last'.result = last.result
                  ELSE /\ last'.result # last.result
                       /\ <<f[1], "">> \in Range(buildPayFastQueryString(b.data, b.opts))]_vars

\* the latest call signed, with includeEmpty set, the pairs of the call before
\* in another order, one of them with an empty value and not in sorted order
C25_Witness ==
  /\ last.op = "generatePayFastSignature"
  /\ req[1] # NoArgs
  /\ req[1].data # req[2].data
  /\ Range(req[1].data) = Range(req[2].data)
  /\ Len(req[2].data) = MaxFields
  /\ req[2].opts.includeEmpty
  /\ \E i \in DOMAIN req[2].data : req[2].data[i][2] = ""
  /\ insertionKeys(filtered(req[2].data, req[2].opts))
       # sortedKeys(filtered(req[2].data, req[2].opts))

----------------------------------------------------------------------------
(* Currency conversion (fxConvert): up to three rate providers, asked one
   after another.  req holds the call: its arguments, the provider to ask
   next, every answer received so far and the value returned. *)

Currencies == {"USD", "ZAR"}

\* what a provider may answer with as the converted amount
FxValues == {7, 8}

\* fetch rejects: no answer arrives
FxThrows == [kind |-> "throw", ok |-> FALSE, numeric |-> FALSE, value |-> 0, success |-> FALSE]

\* an HTTP answer: res.ok, whether the result field is a number (typeof result
\* === 'number') and its value, and json.success (true where the field is absent)
FxAnswers ==
  {FxThrows} \cup
  {[kind |-> "http", ok |-> ok, numeric |-> numeric,
    value |-> IF numeric THEN value ELSE 0, success |-> success] :
     ok \in BOOLEAN, numeric \in BOOLEAN, value \in FxValues, success \in BOOLEAN}

FxProviders == 1..3
FxDone == 4

FxCall(amount, from, to) ==
  [amount |-> amount, from |-> from, to |-> to, next |-> 0, answers |-> <<>>,
   result |-> 0]

\* from.toUpperCase() of a currency code
toUpperCase(c) ==
  CASE c = "usd" -> "USD"
    [] c = "zar" -> "ZAR"
    [] OTHER -> c

\* (process.env.FX_API_KEY || '').trim()
fxKey == cleanPf(env.FX_API_KEY)

\* exchangerate-api.com is asked only with a key; frankfurter needs none
firstProvider == IF fxKey # "" THEN 1 ELSE 2

\* a test that takes every HTTP success for a result
AnyPayload(p, a) == a.kind = "http" /\ a.ok

\* the answer of provider p is returned as the result
accepts(p, a) ==
  /\ a.kind = "http"
  /\ a.ok
  /\ p = 3 => a.success
  /\ a.numeric

InitFx ==
  /\ \E amount \in Amounts, from \in Currencies, to \in Currencies :
       req = FxCall(amount, from, to)
  /\ \E key \in {"", "fxkey"} :
       env = [PAYFAST_MERCHANT_ID |-> "10044172",
              PAYFAST_MERCHANT_KEY |-> "ugnq5eaqpbc0r",
              PAYFAST_PASSPHRASE |-> GatewayPassphrase,
              APP_PLATFORM_FEE_RATE |-> DefaultFeeRatePct,
              FX_API_KEY |-> key]
  /\ last = NoCall
  /\ wallets = [u \in Uids |-> NoWallet]
  /\ txs = [u \in Uids |-> EmptyColl]
  /\ pending = EmptyColl
  /\ groupWallets = [g \in GroupIds |-> NoWallet]
  /\ groupTxs = [g \in GroupIds |-> EmptyColl]
  /\ rides = InitialRides
  /\ driversLive = [u \in Uids |-> u = "u2"]
  /\ orders = EmptyColl
  /\ pc = [h \in Handlers |-> "idle"]
  /\ credited = [p \in PaymentIds |-> 0]

\* entry of fxConvert: the same currency on both sides is returned as it is
fxConvert ==
  /\ req.next = 0
  /\ IF toUpperCase(req.from) = toUpperCase(req.to)
     THEN /\ req' = [req EXCEPT !.next = FxDone, !.result = req.amount]
          /\ last' = Ret("fxConvert", "OK", "")
     ELSE /\ req' = [req EXCEPT !.next = firstProvider]
          /\ UNCHANGED last
  /\ UNCHANGED <<env, store, pc, credited>>

\* provider p answers the request: its result is returned, or the next
\* provider is asked, or, after the third, the call fails
fxProviderAnswers(p, a) ==
  LET heard == [req EXCEPT !.answers = Append(@, <<p, a>>)] IN
  /\ req.next = p
  /\ IF accepts(p, a)
     THEN /\ req' = [heard EXCEPT !.next = FxDone, !.result = a.value]
          /\ last' = Ret("fxConvert", "OK", "")
     ELSE IF p < 3
       THEN /\ req' = [heard EXCEPT !.next = p + 1]
            /\ UNCHANGED last
     ELSE /\ req' = [heard EXCEPT !.next = FxDone]
          /\ last' = Ret("fxConvert", "internal",
                         IF a.kind = "throw" THEN "INTERNAL"
                         ELSE IF ~a.ok THEN "FX HTTP error"
                         ELSE "FX (exchangerate.host) bad payload")
  /\ UNCHANGED <<env, store, pc, credited>>

NextFx ==
  \/ fxConvert
  \/ \E p \in FxProviders, a \in FxAnswers : fxProviderAnswers(p, a)

SpecFx == InitFx /\ [][NextFx]_vars

\* an answer that carries a well-formed number: an HTTP success whose result
\* is a number and, from the third provider, is not marked unsuccessful
WellFormed(p, a) ==
  a.kind = "http" /\ a.ok /\ a.numeric /\ (p = 3 => a.success)

\* the call has returned or failed
FxReturned == last.op = "fxConvert"

\* the answers received came from these providers, in this order, and every
\* one but the last was not a well-formed number
FellThrough(providers) ==
  /\ Len(req.answers) <= Len(providers)
  /\ \A i \in DOMAIN req.answers :
       /\ req.answers[i][1] = providers[i]
       /\ i < Len(req.answers) => ~WellFormed(req.answers[i][1], req.answers[i][2])

\* the outcome of a call that went to the providers in this order
FirstGoodWins(providers) ==
  LET n == Len(req.answers) IN
  /\ FellThrough(providers)
  /\ FxReturned =>
       /\ n >= 1
       /\ last.result = "OK" =>
            /\ WellFormed(req.answers[n][1], req.answers[n][2])
            /\ req.result = req.answers[n][2].value
       /\ last.result # "OK" =>
            /\ last.result = "internal"
            /\ n = Len(providers)
            /\ ~WellFormed(req.answers[n][1], req.answers[n][2])

\* C26 as stated: a conversion between two different currencies tries the
\* three providers in their fixed order and fails only when all three have
\* been tried and have failed.
C26_ThreeProvidersTried ==
  IF req.from = req.to
  THEN FxReturned => (last.result = "OK" /\ req.result = req.amount /\ req.answers = <<>>)
  ELSE FirstGoodWins(<<1, 2, 3>>)

\* C26, amended: the first provider is asked only when FX_API_KEY is set;
\* without the key the call goes to the second and third provider only, and
\* fails with internal when those two have failed.
C26_UpToThreeProviders ==
  IF req.from = req.to
  THEN FxReturned => (last.result = "OK" /\ req.result = req.amount /\ req.answers = <<>>)
  ELSE FirstGoodWins(IF env.FX_API_KEY # "" THEN <<1, 2, 3>> ELSE <<2, 3>>)

\* with a key set, the first provider threw, the second answered something
\* that is no number, and the third provider's number has been returned
C26_Witness ==
  /\ FxReturned
  /\ last.result = "OK"
  /\ Len(req.answers) = 3
  /\ req.answers[1][2].kind = "throw"
  /\ req.answers[2][2].ok /\ ~req.answers[2][2].numeric
  /\ req.result = req.answers[3][2].value
  /\ req.result # req.amount

----------------------------------------------------------------------------
(* The gateway payment id and the reach of verifyPayFastPayment *)

\* C27: a pending payment carries a gateway payment id only once it is
\* COMPLETED, so verify never gets to its gateway query and credit: no credit
\* transaction in flight is verify's, no step of verify changes the store or
\* starts a transaction, and a payment moves from PENDING to COMPLETED only in
\* a step of the webhook.
C27_OnlyWebhookCompletes ==
  /\ [](/\ \A p \in DOMAIN pending :
             pending[p].status = "PENDING" => pending[p].pfPaymentId = 0
        /\ \A h \in Handlers : pc[h] = "txn" => req[h].kind = "itn")
  /\ [][/\ last'.op = "verifyPayFastPayment" => UNCHANGED <<store, pc, req, credited>>
        /\ \A p \in DOMAIN pending :
             (pending[p].status = "PENDING" /\ pending'[p].status = "COMPLETED")
             => /\ last'.op = "payfastITN"
                /\ pending'[p].pfPaymentId # 0]_vars

\* verify has just answered PENDING for a payment that has no gateway payment
\* id yet, while the webhook has completed another one and recorded its id
C27_Witness ==
  /\ last = Ret("verifyPayFastPayment", "PENDING", "No pf_payment_id yet, waiting for ITN")
  /\ \E p \in DOMAIN pending : pending[p].status = "PENDING" /\ pending[p].pfPaymentId = 0
  /\ \E p \in DOMAIN pending :
       pending[p].status = "COMPLETED" /\ pending[p].pfPaymentId = PfPaymentId(p)

----------------------------------------------------------------------------
(* The whole ledger with a ride whose fare a top-up can pay *)

\* fee rates at which a fare of 2 is split with and without a fee
MoneyFeeRates == {DefaultFeeRatePct, 50}

InitMoney ==
  /\ \E f \in MoneyFeeRates :
       env = [PAYFAST_MERCHANT_ID |-> "10044172",
              PAYFAST_MERCHANT_KEY |-> "ugnq5eaqpbc0r",
              PAYFAST_PASSPHRASE |-> GatewayPassphrase,
              APP_PLATFORM_FEE_RATE |-> f]
  /\ wallets = [u \in Uids |-> NoWallet]
  /\ txs = [u \in Uids |-> EmptyColl]
  /\ pending = EmptyColl
  /\ groupWallets = [g \in GroupIds |-> NoWallet]
  /\ groupTxs = [g \in GroupIds |-> EmptyColl]
  /\ rides = [r \in RideIds |-> [InitialRides[r] EXCEPT !.estimatedFareZAR = 2]]
  /\ driversLive = [u \in Uids |-> u = "u2"]
  /\ orders = EmptyColl
  /\ pc = [h \in Handlers |-> "idle"]
  /\ req = [h \in Handlers |-> NoReq]
  /\ credited = [p \in PaymentIds |-> 0]
  /\ last = NoCall

SpecMoney == InitMoney /\ [][Next]_vars

\* the money held in all personal and group wallets
TotalBalances ==
  SumOver([u \in Uids |-> BalanceOf(wallets[u])], Uids)
  + SumOver([g \in GroupIds |-> BalanceOf(groupWallets[g])], GroupIds)

\* what the committed credit transactions of top-ups added
TotalTopUps == SumOver(credited, PaymentIds)

\* the sum of a field over the entries of one type in all personal logs
SumOfEntries(type, field) ==
  SumOver([u \in Uids |->
             SumOver([d \in DOMAIN txs[u] |->
                        IF txs[u][d].type = type THEN txs[u][d][field] ELSE 0],
                     DOMAIN txs[u])],
          Uids)

----------------------------------------------------------------------------
(* Settlement calls on a ride in any of its states.  The ride document and
   the driver's availability record are written by the rider and driver apps;
   a settled ride is one an earlier payDriverOnComplete debited and marked,
   after which the driver may be on a new job. *)

RideStatuses == {"requested", "on_trip", "completed"}

\* the ride document with this status: no driver is assigned while requested
RideWithStatus(status) ==
  [userId |-> "u1",
   driverId |-> IF status = "requested" THEN "" ELSE "u2",
   status |-> status,
   estimatedFareZAR |-> 3,
   paymentStatus |-> IF status = "completed" THEN "authorized" ELSE ""]

InitRideStates ==
  /\ env = [PAYFAST_MERCHANT_ID |-> "10044172",
            PAYFAST_MERCHANT_KEY |-> "ugnq5eaqpbc0r",
            PAYFAST_PASSPHRASE |-> GatewayPassphrase,
            APP_PLATFORM_FEE_RATE |-> DefaultFeeRatePct]
  /\ \E status \in RideStatuses, b \in FundedBalances :
       LET fare == RideWithStatus(status).estimatedFareZAR
           fee == platformFee(fare)
           funded == SetDoc(EmptyColl, 1, Entry("ADMIN_ADJUST", b, "", 0, 0))
       IN
       /\ rides = [r \in RideIds |-> RideWithStatus(status)]
       /\ IF status = "completed"
          THEN /\ b = fare
               /\ wallets = [u \in Uids |->
                               IF u = "u1" THEN [exists |-> TRUE, balance |-> b - fare]
                               ELSE [exists |-> TRUE, balance |-> fare - fee]]
               /\ txs = [u \in Uids |->
                           IF u = "u1"
                           THEN SetDoc(funded, 2, Entry("RIDE_PAYMENT", fare, "u2", "r1", fee))
                           ELSE SetDoc(EmptyColl, 1, Entry("RIDE_EARN", fare - fee, "u1", "r1", fee))]
          ELSE /\ wallets = [u \in Uids |-> IF u = "u1" THEN CreditedWallet(NoWallet, b)
                                            ELSE NoWallet]
               /\ txs = [u \in Uids |-> IF u = "u1" THEN funded ELSE EmptyColl]
  /\ driversLive \in [Uids -> BOOLEAN]
  /\ pending = EmptyColl
  /\ groupWallets = [g \in GroupIds |-> NoWallet]
  /\ groupTxs = [g \in GroupIds |-> EmptyColl]
  /\ orders = EmptyColl
  /\ pc = [h \in Handlers |-> "idle"]
  /\ req = [h \in Handlers |-> NoReq]
  /\ credited = [p \in PaymentIds |-> 0]
  /\ last = NoCall

SpecRideStates == InitRideStates /\ [][NextRide]_vars

\* C29: only the rider of a ride can change anything through
\* payDriverOnComplete, and only from on_trip.  A call by a signed-in user who
\* is not the ride's rider changes no document (balance, log, ride,
\* driver-availability record), whatever the status of the ride; and a ride
\* becomes completed only in a step from on_trip with a driver assigned.
C29_OnlyRiderSettles ==
  [][last'.op = "payDriverOnComplete" =>
     /\ \A c \in Uids, r \in RideIds :
          (payDriverOnComplete(c, r) /\ c # rides[r].userId)
          => UNCHANGED <<store, pc, req, credited>>
     /\ \A r \in RideIds :
          (rides[r].status # "completed" /\ rides'[r].status = "completed")
          => /\ rides[r].status = "on_trip"
             /\ rides[r].driverId # ""]_vars

----------------------------------------------------------------------------
(* verifyPayFastPayment called by a user for payments that are not theirs:
   u1 tops up, the gateway notifies, u2 verifies *)

NextVerifyOther ==
  \/ \E a \in Amounts : createPayFastPayment("u1", a)
  \/ \E m \in ItnGenuine : payfastITN(m)
  \/ \E h \in Handlers : CreditTransaction(h)
  \/ \E h \in Handlers : CreditTransactionFails(h)
  \/ \E p \in PaymentIds : verifyPayFastPayment("u2", p)
  \/ Reply

SpecVerifyOther == InitMoney /\ [][NextVerifyOther]_vars

\* C30: verify called by a signed-in user who is not the owner recorded in
\* the pending payment changes no balance, writes no log entry and leaves the
\* status of the pending payment as it is, in whatever state the payment is:
\* the call changes nothing and starts no transaction, and no credit
\* transaction of verify runs for a caller who is not the owner.
C30_VerifyByOtherChangesNothing ==
  [][last'.op = "verifyPayFastPayment" =>
     /\ \A c \in Uids, p \in DOMAIN pending :
          (verifyPayFastPayment(c, p) /\ c # pending[p].uid)
          => /\ UNCHANGED <<store, pc, req, credited>>
             /\ last'.result \in {"SUCCESS", "PENDING"}
             /\ last'.result = "SUCCESS" <=> pending[p].status = "COMPLETED"
     /\ \A h \in Handlers :
          (/\ CreditTransaction(h)
           /\ req[h].kind = "verify"
           /\ req[h].uid # pending[req[h].paymentId].uid)
          => UNCHANGED <<wallets, txs, pending>>]_vars

\* u2 has just verified a payment of u1 that the webhook completed, while
\* another payment of u1 is still PENDING: u2 holds nothing, u1 the credit
C30_Witness ==
  /\ last.op = "verifyPayFastPayment"
  /\ last.result = "SUCCESS"
  /\ \E p \in DOMAIN pending :
       /\ pending[p].uid = "u1"
       /\ pending[p].status = "COMPLETED"
       /\ last.data.credited = pending[p].amount
       /\ BalanceOf(wallets["u1"]) = pending[p].amount
  /\ \E p \in DOMAIN pending : pending[p].status = "PENDING"
  /\ BalanceOf(wallets["u2"]) = 0
  /\ txs["u2"] = EmptyColl

====
